---- MODULE Spec2Model ----
(***************************************************************************)
(* A model of polyglot's format managers (polyglot/managers.py) and of the *)
(* CLI entry point that builds them (polyglot/__main__.py).                *)
(*                                                                         *)
(* One behaviour is one run of the command `polyglot translate ...`: the   *)
(* command line and the file system are drawn in Init, the source file's   *)
(* content is drawn when it is read, and every answer of the translation   *)
(* client (deepl.translate, deepl.check_document_status) is drawn when the *)
(* call is made.                                                           *)
(*                                                                         *)
(* Text is a sequence of one-character strings, so that os.path.splitext   *)
(* and str.lower are computed and not assumed.                             *)
(***************************************************************************)
EXTENDS Integers, Sequences, FiniteSets, TLC

VARIABLES
    pc,                   \* position of the run
    manager,              \* class of the manager main built
    source_file,          \* args.source_file
    target_lang,          \* deepl.target_lang
    cli_output_directory, \* args.output_directory
    source_exists,        \* os.path.exists(source_file)
    source_readable,      \* open()/parse of source_file succeeds
    output_directory,     \* Manager.output_directory
    error,                \* uncaught exception that ended the run
    source_data,          \* what the load step read from source_file
    content,              \* Manager.content
    completion_count,     \* DictionaryManager.completion_count
    not_translated_count, \* DictionaryManager.not_translated_count
    progress_bar,         \* [max_value, value, updates] of the ProgressBar
    stack,                \* frames of JSONManager.translate_content
    translations,         \* calls of deepl.translate made so far
    messages,             \* what print_ending_messages printed
    files,                \* files written so far, in order
    depth,                \* frames of download_document_when_ready
    ready_after,          \* status checks the document job answers before 'done'
    status_log,           \* answers of deepl.check_document_status, in order
    downloads             \* calls of deepl.download_translated_document

vars == <<pc, manager, source_file, target_lang, cli_output_directory,
          source_exists, source_readable, output_directory, error,
          source_data, content, completion_count, not_translated_count,
          progress_bar, stack, translations, messages, files, depth,
          ready_after, status_log, downloads>>

-----------------------------------------------------------------------------
(* Bounds of the model.                                                    *)

\* key/value pairs of a JSON document, nested ones included
MaxNodes == 4
\* entries of a PO catalog
MaxEntries == 2
\* frames the interpreter allows a recursive method before RecursionError
RecursionLimit == 7

-----------------------------------------------------------------------------
(* Python values.                                                          *)

None == <<"<None>">>
NoText == <<>>

\* bool(x) of a str or None
Truthy(x) == x # None /\ x # NoText

Upper == <<"I", "T", "E", "N">>
Lower == <<"i", "t", "e", "n">>

\* str.lower of one character
LowerChar(c) ==
    IF \E i \in 1..Len(Upper) : Upper[i] = c
    THEN Lower[CHOOSE i \in 1..Len(Upper) : Upper[i] = c]
    ELSE c

\* str.lower
lower(s) == [i \in 1..Len(s) |-> LowerChar(s[i])]

\* str.rfind of a character, 0-based, -1 when absent
rfind(s, c) ==
    IF \E i \in 1..Len(s) : s[i] = c
    THEN (CHOOSE i \in 1..Len(s) : s[i] = c /\ \A j \in (i+1)..Len(s) : s[j] # c) - 1
    ELSE -1

\* os.path.splitext(p)[1] (posixpath: sep '/', extsep '.')
splitext(p) ==
    LET sepIndex == rfind(p, "/")
        dotIndex == rfind(p, ".")
    IN  IF dotIndex > sepIndex
           /\ \E f \in (sepIndex + 1)..(dotIndex - 1) : p[f + 1] # "."
        THEN SubSeq(p, dotIndex + 1, Len(p))
        ELSE NoText

-----------------------------------------------------------------------------
(* The command line and the file system of a run.                          *)

Cwd == <<"/", "w">>
OutDir == <<"/", "o">>
NotADir == <<"/", "x">>

\* os.getcwd()
getcwd == Cwd

\* the directories that exist
Directories == {Cwd, OutDir}

SourceFiles ==
    { <<"a", ".", "j", "s", "o", "n">>,
      <<"b", ".", "p", "o">>,
      <<"c", ".", "t", "x", "t">>,
      <<"d", ".", "v", "/", "e">>,
      <<".", "p", "o">>,
      <<"f", ".", "d", "o", "c", "x">> }

TargetLangs == { <<"I", "T">>, <<"e", "n">> }

\* args.output_directory: absent with __main__.get_parser (default None),
\* absent with CLIArgumentsCollector (default ''), or the given path
OutputDirectoryArgs == {None, NoText, OutDir, NotADir}

DocumentExtensions == { <<".", "d", "o", "c", "x">> }

-----------------------------------------------------------------------------
(* Manager                                                                 *)

\* Manager.extension
extension(file) == splitext(file)

\* os.path.isdir(p); raises TypeError for None
isdir(p) == p \in Directories

\* Manager.__init__, lines 18-19: the resolved directory, or the exception
resolve_output_directory(dir) ==
    IF dir = None THEN [raises |-> "TypeError", value |-> NoText]
    ELSE [raises |-> "",
          value |-> IF dir # NoText /\ isdir(dir) THEN dir ELSE getcwd]

\* Manager.target_file
target_file(dir, lang, file) == dir \o <<"/">> \o lower(lang) \o extension(file)

\* a check_source_file that never exits
check_source_file_never_exits(exists) == FALSE

\* Manager.check_source_file: TRUE when it calls os._exit
check_source_file(exists) == ~exists

\* __main__.translate_or_print_data, lines 29-39
select_manager(file) ==
    IF splitext(file) = <<".", "j", "s", "o", "n">> THEN "JSONManager"
    ELSE IF splitext(file) = <<".", "p", "o">> THEN "POManager"
    ELSE "TextManager"

-----------------------------------------------------------------------------
(* The translation client (polyglot.deepl_request), seen from its callers. *)

Hello == <<"h", "i">>
Bye == <<"b", "y", "e">>
Hallo == <<"h", "a">>

\* the text a successful deepl.translate(entry) returns
Translated(entry) == <<"~">> \o entry

\* every answer deepl.translate(entry) can give: the translation, or a
\* falsy value when the request failed
deepl_translate(entry) == {Translated(entry), None, NoText}

\* a document job that never completes
Never == 0 - 1

\* how many status checks a document job answers before it is done
ReadyAfter == (0..RecursionLimit) \cup {Never}

\* the status field deepl.check_document_status can answer at the n-th check
\* of a job that is done after `ready` checks
DocumentStatuses(ready, n) ==
    IF ready = Never THEN {"queued", "translating", "error"}
    ELSE IF n > ready THEN {"done"}
    ELSE {"queued", "translating"}

\* the binary deepl.download_translated_document returns
Binaries == <<"b", "i", "n">>

-----------------------------------------------------------------------------
(* DictionaryManager                                                       *)

\* a translate_and_handle that returns whatever the client answered
translate_and_handle_ignoring_failure(entry, translation) ==
    [value |-> translation, not_translated |-> 0]

\* DictionaryManager.translate_and_handle: the returned text, and what is
\* added to not_translated_count
translate_and_handle(entry, translation) ==
    [value |-> IF Truthy(translation) THEN translation ELSE entry,
     not_translated |-> IF ~Truthy(translation) THEN 1 ELSE 0]

\* progressbar.ProgressBar(max_value=n)
ProgressBar(n) == [max_value |-> n, value |-> 0, updates |-> 0]

\* ProgressBar.update(value) raises ValueError outside 0..max_value
update_raises(bar, value) == value > bar.max_value

\* ProgressBar.update(value)
update(bar, value) == [bar EXCEPT !.value = value, !.updates = @ + 1]

\* DictionaryManager.print_ending_messages
print_ending_messages(not_translated) ==
    <<[text |-> "Translation completed.", n |-> 0]>>
    \o (IF not_translated > 0
        THEN <<[text |-> "entries have not been translated.", n |-> not_translated]>>
        ELSE <<>>)

-----------------------------------------------------------------------------
(* JSON documents: a dict is a sequence of items in insertion order.       *)

Keys == {"a", "b"}
LeafTexts == {Hello}

Leaf(s) == [isdict |-> FALSE, leaf |-> s, items |-> <<>>]
Dict(items) == [isdict |-> TRUE, leaf |-> NoText, items |-> items]
Item(k, v) == [key |-> k, value |-> v]

RECURSIVE ItemsOfSize(_, _), ValuesOfSize(_)
\* the item lists holding n pairs in all, with distinct keys drawn from avail
ItemsOfSize(n, avail) ==
    IF n = 0 THEN {<<>>}
    ELSE UNION { UNION { { <<Item(km[1], v)>> \o rest :
                           rest \in ItemsOfSize(n - 1 - km[2], avail \ {km[1]}) } :
                         v \in ValuesOfSize(km[2]) } :
                 km \in avail \X (0..(n - 1)) }

\* the values holding m pairs below them
ValuesOfSize(m) ==
    IF m = 0 THEN {Leaf(s) : s \in LeafTexts} \cup {Dict(<<>>)}
    ELSE {Dict(it) : it \in ItemsOfSize(m, Keys)}

\* what json.load can return for a document of nested objects
JsonDocuments == UNION { {Dict(it) : it \in ItemsOfSize(n, Keys)} : n \in 0..MaxNodes }

\* isinstance(value, dict)
isdict(value) == value.isdict

\* `not dictionary`
IsEmptyDict(dictionary) == dictionary.items = <<>>

\* index of key in items, 0 when absent
IndexOf(items, key) ==
    IF \E i \in 1..Len(items) : items[i].key = key
    THEN CHOOSE i \in 1..Len(items) : items[i].key = key
    ELSE 0

\* items after `d[key] = value`: replaced in place, or appended
setitem(items, key, value) ==
    IF IndexOf(items, key) = 0 THEN Append(items, Item(key, value))
    ELSE [items EXCEPT ![IndexOf(items, key)].value = value]

RECURSIVE Sub(_, _)
\* the dict reached from d along path (a sequence of item indexes)
Sub(d, path) ==
    IF path = <<>> THEN d ELSE Sub(d.items[Head(path)].value, Tail(path))

RECURSIVE AssignAt(_, _, _, _)
AssignAt(d, path, key, value) ==
    IF path = <<>> THEN [d EXCEPT !.items = setitem(@, key, value)]
    ELSE [d EXCEPT !.items[Head(path)].value = AssignAt(@, Tail(path), key, value)]

\* an assignment made on self.content instead of the nested dictionary
assign_on_root(root, path, key, value) == AssignAt(root, <<>>, key, value)

\* self.content after `dictionary[key] = value`, dictionary being the dict
\* at path
assign(root, path, key, value) == AssignAt(root, path, key, value)

RECURSIVE get_number_of_translations(_, _, _), CountItems(_, _, _, _, _)
\* the loop of JSONManager.get_number_of_translations from item i on
CountItems(items, i, number, root, frames) ==
    IF i > Len(items) THEN number
    ELSE LET n == IF isdict(items[i].value)
                  THEN get_number_of_translations(items[i].value, root, frames + 1)
                  ELSE 1
         IN  IF n < 0 THEN -1 ELSE CountItems(items, i + 1, number + n, root, frames)

\* a count that does not recurse into nested dicts
get_number_of_translations_flat(dictionary, root, frames) ==
    Len((IF IsEmptyDict(dictionary) THEN root ELSE dictionary).items)

\* JSONManager.get_number_of_translations(dictionary), self.content being
\* root, in the frames-th frame of the recursion; -1 stands for
\* RecursionError
get_number_of_translations(dictionary, root, frames) ==
    IF frames > RecursionLimit THEN -1
    ELSE CountItems((IF IsEmptyDict(dictionary) THEN root ELSE dictionary).items,
                    1, 0, root, frames)

RECURSIVE json_dumps(_), DumpItems(_, _)
DumpItems(items, i) ==
    IF i > Len(items) THEN <<>>
    ELSE (IF i > 1 THEN <<",">> ELSE <<>>)
         \o <<"\"", items[i].key, "\"", ":">> \o json_dumps(items[i].value)
         \o DumpItems(items, i + 1)

\* json.dumps(value), without the white space
json_dumps(value) ==
    IF isdict(value) THEN <<"{">> \o DumpItems(value.items, 1) \o <<"}">>
    ELSE <<"\"">> \o value.leaf \o <<"\"">>

-----------------------------------------------------------------------------
(* PO catalogs                                                             *)

MsgIds == {Hello, Bye}
MsgStrs == {NoText, Hallo}
Occurrences == { <<>>, <<[file |-> "views.py", line |-> "3"]>> }
Metadata == [Language |-> "en"]

POEntry(id, str, occ) == [msgid |-> id, msgstr |-> str, occurrences |-> occ]

POEntries == {POEntry(id, str, occ) : id \in MsgIds, str \in MsgStrs, occ \in Occurrences}

\* what polib.pofile(source_file) can return
Catalogs ==
    UNION { [1..n -> POEntries] : n \in 0..MaxEntries }

RECURSIVE LoadEntries(_, _, _)
LoadEntries(pofile, i, dictionary) ==
    IF i > Len(pofile) THEN dictionary
    ELSE LoadEntries(pofile, i + 1,
            setitem(dictionary, pofile[i].msgid,
                    [msgstr |-> IF pofile[i].msgstr = NoText THEN pofile[i].msgid
                                ELSE pofile[i].msgstr,
                     occurrences |-> pofile[i].occurrences]))

\* a load that keeps msgstr as read and drops the occurrences
POManager_load_without_occurrences(pofile) ==
    [i \in 1..Len(pofile) |->
        Item(pofile[i].msgid, [msgstr |-> pofile[i].msgstr, occurrences |-> <<>>])]

\* self.content after POManager.load_source_content
POManager_load_source_content(pofile) == LoadEntries(pofile, 1, <<>>)

\* the entries POManager.make_translated_files appends to the new POFile
POManager_entries(dictionary) ==
    [i \in 1..Len(dictionary) |->
        POEntry(dictionary[i].key, dictionary[i].value.msgstr,
                dictionary[i].value.occurrences)]

-----------------------------------------------------------------------------
(* The run.                                                                *)

Init ==
    /\ pc = "main"
    /\ manager = "none"
    /\ source_file \in SourceFiles
    /\ target_lang \in TargetLangs
    /\ cli_output_directory \in OutputDirectoryArgs
    /\ source_exists \in BOOLEAN
    /\ source_readable \in BOOLEAN
    /\ source_readable => source_exists
    /\ output_directory = NoText
    /\ error = ""
    /\ source_data = <<>>
    /\ content = <<>>
    /\ completion_count = 0
    /\ not_translated_count = 0
    /\ progress_bar = ProgressBar(0)
    /\ stack = <<>>
    /\ translations = <<>>
    /\ messages = <<>>
    /\ files = <<>>
    /\ depth = 0
    /\ ready_after \in IF extension(source_file) \in DocumentExtensions
                      THEN ReadyAfter ELSE {0}
    /\ status_log = <<>>
    /\ downloads = 0

\* self.target_file of the manager of this run
TargetFile == target_file(output_directory, target_lang, source_file)

\* an uncaught exception ends the run
Raise(exception) == pc' = "crashed" /\ error' = exception

\* Manager.__init__ of class cls
Construct(cls) ==
    /\ pc = "main"
    /\ manager' = cls
    /\ IF check_source_file(source_exists)
       THEN pc' = "exited" /\ UNCHANGED <<error, output_directory>>
       ELSE LET dir == resolve_output_directory(cli_output_directory)
            IN  IF dir.raises # ""
                THEN Raise(dir.raises) /\ UNCHANGED output_directory
                ELSE /\ pc' = "constructed"
                     /\ output_directory' = dir.value
                     /\ UNCHANGED error
    /\ UNCHANGED <<source_file, target_lang, cli_output_directory,
                   source_exists, source_readable, source_data, content,
                   completion_count, not_translated_count, progress_bar,
                   stack, translations, messages, files, depth, ready_after,
                   status_log, downloads>>

\* translate_or_print_data: the manager is chosen by the file's extension
Main == Construct(select_manager(source_file))

\* a DocumentManager is built for a document
DocumentMain ==
    /\ extension(source_file) \in DocumentExtensions
    /\ Construct("DocumentManager")

(* TextManager *)

\* what source.read() can return
Texts == {Hello, Bye}

\* TextManager.load_source_content
TextManager_load_source_content ==
    /\ pc = "constructed" /\ manager = "TextManager"
    /\ IF ~source_readable
       THEN pc' = "exited" /\ UNCHANGED <<source_data, content>>
       ELSE /\ \E text \in Texts :
                  source_data' = text /\ content' = text
            /\ pc' = "loaded"
    /\ UNCHANGED <<manager, source_file, target_lang, cli_output_directory,
                   source_exists, source_readable, output_directory, error,
                   completion_count, not_translated_count, progress_bar,
                   stack, translations, messages, files, depth, ready_after,
                   status_log, downloads>>

\* TextManager.translate_content
TextManager_translate_content ==
    /\ pc = "loaded" /\ manager = "TextManager"
    /\ \E translation \in deepl_translate(content) :
          /\ content' = translation
          /\ translations' = Append(translations,
                [unit |-> <<>>, entry |-> content, translation |-> translation])
    /\ pc' = "translated"
    /\ UNCHANGED <<manager, source_file, target_lang, cli_output_directory,
                   source_exists, source_readable, output_directory, error,
                   source_data, completion_count, not_translated_count,
                   progress_bar, stack, messages, files, depth, ready_after,
                   status_log, downloads>>

\* TextManager.translate_source_file, lines 47-48, and
\* TextManager.make_translated_files
TextManager_make_translated_files ==
    /\ pc = "translated" /\ manager = "TextManager"
    /\ files' = IF Truthy(content)
                THEN Append(files, [path |-> TargetFile, data |-> content])
                ELSE files
    /\ pc' = "finished"
    /\ UNCHANGED <<manager, source_file, target_lang, cli_output_directory,
                   source_exists, source_readable, output_directory, error,
                   source_data, content, completion_count,
                   not_translated_count, progress_bar, stack, translations,
                   messages, depth, ready_after, status_log, downloads>>

(* DictionaryManager, JSONManager, POManager *)

\* JSONManager.load_source_content
JSONManager_load_source_content ==
    /\ pc = "constructed" /\ manager = "JSONManager"
    /\ IF ~source_readable
       THEN Raise("OSError") /\ UNCHANGED <<source_data, content>>
       ELSE /\ \E document \in JsonDocuments :
                  source_data' = document /\ content' = document
            /\ pc' = "loaded"
            /\ UNCHANGED error
    /\ UNCHANGED <<manager, source_file, target_lang, cli_output_directory,
                   source_exists, source_readable, output_directory,
                   completion_count, not_translated_count, progress_bar,
                   stack, translations, messages, files, depth, ready_after,
                   status_log, downloads>>

\* POManager.load_source_content
POManager_load ==
    /\ pc = "constructed" /\ manager = "POManager"
    /\ IF ~source_readable
       THEN Raise("OSError") /\ UNCHANGED <<source_data, content>>
       ELSE /\ \E pofile \in Catalogs :
                  /\ source_data' = pofile
                  /\ content' = POManager_load_source_content(pofile)
            /\ pc' = "loaded"
            /\ UNCHANGED error
    /\ UNCHANGED <<manager, source_file, target_lang, cli_output_directory,
                   source_exists, source_readable, output_directory,
                   completion_count, not_translated_count, progress_bar,
                   stack, translations, messages, files, depth, ready_after,
                   status_log, downloads>>

\* self.get_number_of_translations() of the manager of this run
NumberOfTranslations ==
    IF manager = "JSONManager" THEN get_number_of_translations(content, content, 1)
    ELSE Len(content)

\* DictionaryManager.get_progress_bar, then the call of translate_content
DictionaryManager_get_progress_bar ==
    /\ pc = "loaded" /\ manager \in {"JSONManager", "POManager"}
    /\ IF NumberOfTranslations < 0
       THEN Raise("RecursionError") /\ UNCHANGED <<progress_bar, stack>>
       ELSE /\ progress_bar' = ProgressBar(NumberOfTranslations)
            /\ stack' = <<[path |-> <<>>, i |-> 1]>>
            /\ pc' = "translating"
            /\ UNCHANGED error
    /\ UNCHANGED <<manager, source_file, target_lang, cli_output_directory,
                   source_exists, source_readable, output_directory,
                   source_data, content, completion_count,
                   not_translated_count, translations, messages, files, depth,
                   ready_after, status_log, downloads>>

\* the frame of translate_content that is running
Frame == stack[Len(stack)]

\* the frame's `dictionary`, as items
FrameItems ==
    IF manager = "JSONManager" THEN Sub(content, Frame.path).items ELSE content

\* the tail of one pass of either loop: the counters and the bar after an
\* attempt, or the ValueError of the bar
Advance(handled) ==
    /\ not_translated_count' = not_translated_count + handled.not_translated
    /\ completion_count' = completion_count + 1
    /\ IF update_raises(progress_bar, completion_count + 1)
       THEN Raise("ValueError") /\ UNCHANGED <<progress_bar, stack>>
       ELSE /\ progress_bar' = update(progress_bar, completion_count + 1)
            /\ stack' = [stack EXCEPT ![Len(stack)].i = @ + 1]
            /\ UNCHANGED <<pc, error>>

\* JSONManager.translate_content, lines 123-131: one leaf
JSONManager_translate_leaf ==
    /\ pc = "translating" /\ manager = "JSONManager"
    /\ Frame.i <= Len(FrameItems)
    /\ ~isdict(FrameItems[Frame.i].value)
    /\ LET key == FrameItems[Frame.i].key
           value == FrameItems[Frame.i].value.leaf
       IN  \E translation \in deepl_translate(value) :
              LET handled == translate_and_handle(value, translation)
              IN  /\ content' = assign(content, Frame.path, key, Leaf(handled.value))
                  /\ translations' = Append(translations,
                        [unit |-> Frame.path \o <<Frame.i>>, entry |-> value,
                         translation |-> translation])
                  /\ Advance(handled)
    /\ UNCHANGED <<manager, source_file, target_lang, cli_output_directory,
                   source_exists, source_readable, output_directory,
                   source_data, messages, files, depth, ready_after,
                   status_log, downloads>>

\* JSONManager.translate_content, lines 125-126 and 120-121: the recursive
\* call for a nested dict
JSONManager_translate_nested ==
    /\ pc = "translating" /\ manager = "JSONManager"
    /\ Frame.i <= Len(FrameItems)
    /\ isdict(FrameItems[Frame.i].value)
    /\ IF Len(stack) + 1 > RecursionLimit
       THEN Raise("RecursionError") /\ UNCHANGED stack
       ELSE /\ stack' = Append([stack EXCEPT ![Len(stack)].i = @ + 1],
                   [path |-> IF IsEmptyDict(FrameItems[Frame.i].value) THEN <<>>
                             ELSE Frame.path \o <<Frame.i>>,
                    i |-> 1])
            /\ UNCHANGED <<pc, error>>
    /\ UNCHANGED <<manager, source_file, target_lang, cli_output_directory,
                   source_exists, source_readable, output_directory,
                   source_data, content, completion_count,
                   not_translated_count, progress_bar, translations, messages,
                   files, depth, ready_after, status_log, downloads>>

\* POManager.translate_content: one entry
POManager_translate_entry ==
    /\ pc = "translating" /\ manager = "POManager"
    /\ Frame.i <= Len(content)
    /\ LET msgstr == content[Frame.i].value.msgstr
       IN  \E translation \in deepl_translate(msgstr) :
              LET handled == translate_and_handle(msgstr, translation)
              IN  /\ content' = [content EXCEPT ![Frame.i].value.msgstr = handled.value]
                  /\ translations' = Append(translations,
                        [unit |-> <<Frame.i>>, entry |-> msgstr,
                         translation |-> translation])
                  /\ Advance(handled)
    /\ UNCHANGED <<manager, source_file, target_lang, cli_output_directory,
                   source_exists, source_readable, output_directory,
                   source_data, messages, files, depth, ready_after,
                   status_log, downloads>>

\* translate_content: the loop is over and the call returns
translate_content_return ==
    /\ pc = "translating"
    /\ Frame.i > Len(FrameItems)
    /\ stack' = SubSeq(stack, 1, Len(stack) - 1)
    /\ pc' = IF Len(stack) = 1 THEN "translated" ELSE "translating"
    /\ UNCHANGED <<manager, source_file, target_lang, cli_output_directory,
                   source_exists, source_readable, output_directory, error,
                   source_data, content, completion_count,
                   not_translated_count, progress_bar, translations, messages,
                   files, depth, ready_after, status_log, downloads>>

\* DictionaryManager.print_ending_messages
DictionaryManager_print_ending_messages ==
    /\ pc = "translated" /\ manager \in {"JSONManager", "POManager"}
    /\ messages' = print_ending_messages(not_translated_count)
    /\ pc' = "reported"
    /\ UNCHANGED <<manager, source_file, target_lang, cli_output_directory,
                   source_exists, source_readable, output_directory, error,
                   source_data, content, completion_count,
                   not_translated_count, progress_bar, stack, translations,
                   files, depth, ready_after, status_log, downloads>>

\* JSONManager.make_translated_files
JSONManager_make_translated_files ==
    /\ pc = "reported" /\ manager = "JSONManager"
    /\ files' = Append(files, [path |-> TargetFile, data |-> json_dumps(content)])
    /\ pc' = "finished"
    /\ UNCHANGED <<manager, source_file, target_lang, cli_output_directory,
                   source_exists, source_readable, output_directory, error,
                   source_data, content, completion_count,
                   not_translated_count, progress_bar, stack, translations,
                   messages, depth, ready_after, status_log, downloads>>

\* the path of the compiled catalog, line 177
mofile == output_directory \o <<"/">> \o lower(target_lang) \o <<".", "m", "o">>

\* POManager.make_translated_files
POManager_make_translated_files ==
    /\ pc = "reported" /\ manager = "POManager"
    /\ LET pofile == [metadata |-> Metadata, entries |-> POManager_entries(content)]
       IN  files' = files \o <<[path |-> TargetFile, data |-> pofile],
                               [path |-> mofile, data |-> pofile]>>
    /\ pc' = "finished"
    /\ UNCHANGED <<manager, source_file, target_lang, cli_output_directory,
                   source_exists, source_readable, output_directory, error,
                   source_data, content, completion_count,
                   not_translated_count, progress_bar, stack, translations,
                   messages, depth, ready_after, status_log, downloads>>

(* DocumentManager *)

\* DocumentManager.translate_source_file, lines 188-192: the document is
\* submitted and download_document_when_ready is called
DocumentManager_translate_source_file ==
    /\ pc = "constructed" /\ manager = "DocumentManager"
    /\ pc' = "polling"
    /\ depth' = 1
    /\ UNCHANGED <<manager, source_file, target_lang, cli_output_directory,
                   source_exists, source_readable, output_directory, error,
                   source_data, content, completion_count,
                   not_translated_count, progress_bar, stack, translations,
                   messages, files, ready_after, status_log, downloads>>

\* a test that takes every answer for 'done'
is_done_always(status) == TRUE

\* line 199: status == 'done'
is_done(status) == status = "done"

\* DocumentManager.download_document_when_ready: one call, with
\* download_target_file when the status is 'done'
DocumentManager_download_document_when_ready ==
    /\ pc = "polling"
    /\ \E status \in DocumentStatuses(ready_after, Len(status_log) + 1) :
          /\ status_log' = Append(status_log, status)
          /\ IF is_done(status)
             THEN /\ downloads' = downloads + 1
                  /\ files' = Append(files, [path |-> TargetFile, data |-> Binaries])
                  /\ pc' = "finished"
                  /\ UNCHANGED <<depth, error>>
             ELSE /\ IF depth + 1 > RecursionLimit
                     THEN Raise("RecursionError") /\ UNCHANGED depth
                     ELSE depth' = depth + 1 /\ UNCHANGED <<pc, error>>
                  /\ UNCHANGED <<downloads, files>>
    /\ UNCHANGED <<manager, source_file, target_lang, cli_output_directory,
                   source_exists, source_readable, output_directory,
                   source_data, content, completion_count,
                   not_translated_count, progress_bar, stack, translations,
                   messages, ready_after>>

Next ==
    \/ Main
    \/ DocumentMain
    \/ TextManager_load_source_content
    \/ TextManager_translate_content
    \/ TextManager_make_translated_files
    \/ JSONManager_load_source_content
    \/ POManager_load
    \/ DictionaryManager_get_progress_bar
    \/ JSONManager_translate_leaf
    \/ JSONManager_translate_nested
    \/ POManager_translate_entry
    \/ translate_content_return
    \/ DictionaryManager_print_ending_messages
    \/ JSONManager_make_translated_files
    \/ POManager_make_translated_files
    \/ DocumentManager_translate_source_file
    \/ DocumentManager_download_document_when_ready

Spec == Init /\ [][Next]_vars

-----------------------------------------------------------------------------
(* What the properties below speak of.                                     *)

TextRun == manager = "TextManager"
JsonRun == manager = "JSONManager"
PoRun == manager = "POManager"
DocumentRun == manager = "DocumentManager"

\* the run is over
Stopped == pc \in {"finished", "exited", "crashed"}

\* the source file was loaded by a text, JSON or PO manager
LoadedRun ==
    /\ TextRun \/ JsonRun \/ PoRun
    /\ \/ pc \in {"loaded", "translating", "translated", "reported", "finished"}
       \/ pc = "crashed" /\ error \in {"RecursionError", "ValueError"}

\* translate_content has returned
Translated_Done == pc \in {"translated", "reported", "finished"}

\* a translate call that failed
Failed(call) == ~Truthy(call.translation)

FailedCalls == {i \in DOMAIN translations : Failed(translations[i])}

CallsFor(unit) == {i \in DOMAIN translations : translations[i].unit = unit}

RECURSIVE LeafPaths(_, _)
\* the positions of the leaves of a JSON value
LeafPaths(value, path) ==
    IF ~value.isdict THEN {path}
    ELSE UNION { LeafPaths(value.items[i].value, path \o <<i>>) :
                 i \in 1..Len(value.items) }

\* the message ids of a catalog
MsgIdsOf(pofile) == {pofile[i].msgid : i \in DOMAIN pofile}

\* the entry of the source catalog that is last to carry this message id
LastSource(id) ==
    source_data[CHOOSE i \in DOMAIN source_data :
                    /\ source_data[i].msgid = id
                    /\ \A j \in DOMAIN source_data : j > i => source_data[j].msgid # id]

\* the text a PO entry holds before it is translated
PreTranslation(entry) == IF entry.msgstr = NoText THEN entry.msgid ELSE entry.msgstr

\* the translation units of the loaded source
Units ==
    IF JsonRun THEN LeafPaths(source_data, <<>>)
    ELSE IF PoRun THEN {<<i>> : i \in 1..Cardinality(MsgIdsOf(source_data))}
    ELSE {<<>>}

\* every unit was handed to the translator, each once
AllUnitsAttemptedOnce ==
    /\ {translations[i].unit : i \in DOMAIN translations} = Units
    /\ Len(translations) = Cardinality(Units)

\* what a unit must hold once its call was made: the translation, or the
\* original when the call failed
Outcome(unit, original) ==
    IF CallsFor(unit) = {} THEN original
    ELSE LET call == translations[CHOOSE i \in CallsFor(unit) : TRUE]
         IN  IF Failed(call) THEN original ELSE call.translation

RECURSIVE ExpectedTree(_, _)
\* the loaded JSON value with every attempted leaf replaced by its outcome
ExpectedTree(value, path) ==
    IF value.isdict
    THEN Dict([i \in 1..Len(value.items) |->
                  Item(value.items[i].key,
                       ExpectedTree(value.items[i].value, path \o <<i>>))])
    ELSE Leaf(Outcome(path, value.leaf))

\* the message strings a PO run must hold, entry by entry
ExpectedMsgstr(i) == Outcome(<<i>>, PreTranslation(LastSource(content[i].key)))

-----------------------------------------------------------------------------
(* C1 *)

\* what C1 says of a JSON leaf and of a PO entry's message string: after
\* each call the unit holds the translation, or the original when the call
\* failed, the counter is the number of failed calls, and the written files
\* hold these values
DictionaryUnitsHandled ==
    /\ (JsonRun \/ PoRun) /\ LoadedRun =>
          not_translated_count = Cardinality(FailedCalls)
    /\ JsonRun /\ LoadedRun => content = ExpectedTree(source_data, <<>>)
    /\ JsonRun /\ pc = "finished" =>
          files = <<[path |-> TargetFile,
                     data |-> json_dumps(ExpectedTree(source_data, <<>>))]>>
    /\ PoRun /\ LoadedRun =>
          \A i \in DOMAIN content : content[i].value.msgstr = ExpectedMsgstr(i)
    /\ PoRun /\ pc = "finished" =>
          /\ Len(files) = 2
          /\ \A f \in DOMAIN files : \A i \in DOMAIN content :
                files[f].data.entries[i].msgstr = ExpectedMsgstr(i)

\* C1, as amended: for a JSON leaf and for a PO entry's message string, a
\* failed translate call leaves the original pre-translation value in place
\* and adds exactly one to the not-translated counter, a successful call
\* stores the translation and leaves the counter alone, and the written file
\* holds these values. A text file has no counter: a failed call leaves it
\* without an output file, a successful one writes the translation.
C1_FailureKeepsOriginal ==
    /\ DictionaryUnitsHandled
    /\ TextRun /\ pc = "finished" =>
          /\ not_translated_count = 0
          /\ files = IF Failed(translations[1]) THEN <<>>
                     ELSE <<[path |-> TargetFile, data |-> translations[1].translation]>>

\* a JSON run is over in which one call failed and another succeeded
C1_Witness ==
    /\ JsonRun /\ pc = "finished"
    /\ not_translated_count = 1
    /\ Len(translations) >= 2

\* C1, as claimed: for the whole content of a text file as for a JSON leaf
\* and a PO entry, a failed call leaves the original in the written output
\* and adds one to the not-translated counter
C1_AsClaimed ==
    /\ DictionaryUnitsHandled
    /\ TextRun /\ pc = "finished" =>
          /\ not_translated_count = Cardinality(FailedCalls)
          /\ files = <<[path |-> TargetFile, data |-> Outcome(<<>>, source_data)]>>

-----------------------------------------------------------------------------
(* C2 *)

\* C2, as claimed: a run whose source file was loaded ends having attempted
\* every unit, reported the summary and written the output once, whichever
\* calls failed
C2_AsClaimed ==
    LoadedRun /\ Stopped =>
       /\ pc = "finished"
       /\ AllUnitsAttemptedOnce
       /\ ~TextRun => messages # <<>>
       /\ Len(files) = IF PoRun THEN 2 ELSE 1

-----------------------------------------------------------------------------
(* C3 *)

\* C3: in a JSON run the total computed by get_number_of_translations is
\* the number of progress-bar updates translate_content makes: the bar is
\* never moved past its maximum, it is updated once per attempt, and when
\* translate_content has returned completion_count and the number of
\* updates equal the total
C3_CountMatchesUpdates ==
    JsonRun =>
       /\ error # "ValueError"
       /\ progress_bar.value <= progress_bar.max_value
       /\ progress_bar.updates = completion_count
       /\ progress_bar.updates = Len(translations)
       /\ Translated_Done =>
             /\ progress_bar.updates = progress_bar.max_value
             /\ completion_count = progress_bar.max_value

\* a JSON run translated a document with leaves on two levels
C3_Witness ==
    /\ JsonRun /\ pc = "translated"
    /\ completion_count >= 3
    /\ \E i, j \in DOMAIN translations :
          Len(translations[i].unit) = 1 /\ Len(translations[j].unit) >= 2

-----------------------------------------------------------------------------
(* C4 *)

RECURSIVE SameShape(_, _)
\* the same keys in the same order and the same nesting of mappings
SameShape(a, b) ==
    /\ a.isdict = b.isdict
    /\ Len(a.items) = Len(b.items)
    /\ \A i \in 1..Len(a.items) :
          /\ a.items[i].key = b.items[i].key
          /\ SameShape(a.items[i].value, b.items[i].value)

\* C4: from the load on, and so after translate_content, the JSON tree has
\* the keys, the key order and the nesting of the loaded document, and each
\* mapping is still a mapping: only leaves differ
C4_ShapePreserved ==
    JsonRun /\ LoadedRun => SameShape(source_data, content)

\* a JSON run changed a leaf of a nested mapping
C4_Witness ==
    /\ JsonRun /\ Translated_Done
    /\ content # source_data
    /\ \E i \in DOMAIN translations :
          Len(translations[i].unit) >= 2 /\ ~Failed(translations[i])

-----------------------------------------------------------------------------
(* C5 *)

\* C5: both files a PO run writes hold one entry per message id of the
\* source catalog, each with the occurrences of the source entry of that
\* message id (the last one, when several entries share it), and an
\* entry whose source message string is empty is translated from its
\* message id
C5_CatalogPreserved ==
    PoRun /\ pc = "finished" =>
       /\ Len(files) = 2
       /\ \A f \in DOMAIN files :
             LET written == files[f].data.entries
             IN  /\ MsgIdsOf(written) = MsgIdsOf(source_data)
                 /\ Len(written) = Cardinality(MsgIdsOf(source_data))
                 /\ \A i \in DOMAIN written :
                       written[i].occurrences = LastSource(written[i].msgid).occurrences
       /\ \A i \in DOMAIN translations :
             LET source == LastSource(content[translations[i].unit[1]].key)
             IN  translations[i].entry =
                    IF source.msgstr = NoText THEN source.msgid ELSE source.msgstr

\* a PO run wrote an entry that has occurrences and an empty source msgstr
C5_Witness ==
    /\ PoRun /\ pc = "finished"
    /\ \E i \in DOMAIN source_data :
          /\ source_data[i].msgstr = NoText
          /\ source_data[i].occurrences # <<>>
          /\ \E j \in DOMAIN content :
                content[j].key = source_data[i].msgid /\ ~Failed(translations[j])

-----------------------------------------------------------------------------
(* C6 *)

\* the directory the claim names: the given one if it is an existing
\* directory, the working directory otherwise
ClaimedDirectory ==
    IF cli_output_directory \in {OutDir, Cwd} THEN cli_output_directory ELSE Cwd

ClaimedLang == IF target_lang = <<"I", "T">> THEN <<"i", "t">> ELSE target_lang

ClaimedExtension ==
    IF source_file = <<"a", ".", "j", "s", "o", "n">> THEN <<".", "j", "s", "o", "n">>
    ELSE IF source_file = <<"b", ".", "p", "o">> THEN <<".", "p", "o">>
    ELSE IF source_file = <<"c", ".", "t", "x", "t">> THEN <<".", "t", "x", "t">>
    ELSE IF source_file = <<"f", ".", "d", "o", "c", "x">> THEN <<".", "d", "o", "c", "x">>
    ELSE <<>>

\* C6, as claimed: once a manager is built for an existing source file, its
\* target file is the claimed directory, '/', the lowercased language code
\* and the extension, also when the option was not given
C6_AsClaimed ==
    source_exists /\ pc # "main" =>
       /\ error # "TypeError"
       /\ TargetFile = ClaimedDirectory \o <<"/">> \o ClaimedLang \o ClaimedExtension

-----------------------------------------------------------------------------
(* C7 *)

\* C7: when the source file does not exist the constructor exits: nothing
\* is loaded, no translate call, no status check and no download is made
\* and no file is written. A source the text, JSON or PO manager cannot
\* read leaves no translate call and no written file either.
C7_MissingSourceExits ==
    /\ ~source_exists /\ pc # "main" =>
          /\ pc = "exited"
          /\ source_data = <<>> /\ content = <<>>
          /\ translations = <<>> /\ files = <<>>
          /\ depth = 0 /\ status_log = <<>> /\ downloads = 0
    /\ ~source_readable /\ (TextRun \/ JsonRun \/ PoRun) =>
          /\ translations = <<>> /\ files = <<>>
          /\ pc \in {"constructed", "exited", "crashed"}

\* the constructor exited on a missing source file
C7_Witness == pc = "exited" /\ ~source_exists /\ manager # "none"

-----------------------------------------------------------------------------
(* C8 *)

DoneChecks == {i \in DOMAIN status_log : status_log[i] = "done"}

\* C8: status checks are made only after the submission; the document is
\* downloaded and written at most once, and only when a status check has
\* answered 'done'; a 'done' answer is the last status check of the run
C8_DownloadAfterDone ==
    /\ status_log # <<>> => DocumentRun /\ depth >= 1
    /\ downloads <= 1
    /\ downloads = Cardinality(DoneChecks)
    /\ \A i \in DoneChecks : i = Len(status_log)
    /\ DocumentRun =>
          /\ Len(files) = downloads
          /\ downloads = 1 <=> pc = "finished"

\* a document was downloaded after two status checks that were not 'done'
C8_Witness ==
    /\ DocumentRun /\ pc = "finished"
    /\ Len(status_log) >= 3
    /\ files # <<>>

-----------------------------------------------------------------------------
(* C9 *)

\* C9, as claimed: on every JSON tree, empty nested mappings included, the
\* count and the translation pass return, and the translator is called once
\* for each leaf and never for a mapping
C9_AsClaimed ==
    JsonRun /\ LoadedRun =>
       /\ error # "RecursionError"
       /\ \A i \in DOMAIN translations :
             /\ translations[i].unit \in LeafPaths(source_data, <<>>)
             /\ CallsFor(translations[i].unit) = {i}
       /\ Translated_Done =>
             LeafPaths(source_data, <<>>) = {translations[i].unit : i \in DOMAIN translations}

-----------------------------------------------------------------------------
(* C10 *)

\* C10, as claimed: whatever the number of answers that are not 'done'
\* before the job answers 'done', a run that has submitted its document
\* stops only after the 'done' answer, with the document downloaded
C10_AsClaimed ==
    DocumentRun /\ depth >= 1 /\ ready_after # Never /\ Stopped =>
       /\ downloads = 1
       /\ status_log[Len(status_log)] = "done"

====
